---- MODULE Spec2Model ----
(***************************************************************************)
(* kama: an access-controlled entity graph served over gRPC.               *)
(*                                                                         *)
(* The handlers of kama/server.py (DatabaseServicer and entity_to_pb) are  *)
(* modelled as operators over a store record and applied by one action per *)
(* RPC.  kama.database and kama.context are not part of the sources at     *)
(* hand: their operations (Entity_* and CanAccess below) follow the        *)
(* specification's description of the store adapter and of the permission  *)
(* evaluator.                                                              *)
(***************************************************************************)
EXTENDS Integers, Sequences, FiniteSets, TLC

(***************************************************************************)
(* Bounds of the model.                                                    *)
(***************************************************************************)
\* entities that CreateEntity may add to the bootstrap store
MaxCreated == 2
\* store-changing calls along one behaviour
MaxOps == 2
\* criteria of one kind in one search request
MaxCriteria == 2

VARIABLES entities, attributes, links, permissions, next_uuid, ops, resp, creating

vars == <<entities, attributes, links, permissions, next_uuid, ops, resp, creating>>

(***************************************************************************)
(* Values.  A uuid is a positive number, 0 is the unset uuid of a protobuf *)
(* message ("" in the source) and "" the unset string.                     *)
(***************************************************************************)
NoUuid == 0

Alice == 1
Bob == 2
Staff == 3
Admins == 4

BootEntities ==
    (Alice :> [kind |-> "user", name |-> "alice"])
 @@ (Bob :> [kind |-> "user", name |-> "bob"])
 @@ (Staff :> [kind |-> "role", name |-> "staff"])
 @@ (Admins :> [kind |-> "role", name |-> "admins"])

FirstFree == Cardinality(DOMAIN BootEntities) + 1

UUIDs == 1 .. (FirstFree + MaxCreated - 1)

Users == {Alice, Bob}

Kinds == {"doc"}
Names == {"a", "b"}
Keys == {"k1", "k2"}
Values == {"v1", "v2"}
Capabilities == {"read", "write", "grant"}

\* The store as one value: what the handlers read and return.
DB ==
    [entities |-> entities, attributes |-> attributes, links |-> links,
     permissions |-> permissions, next_uuid |-> next_uuid]

Last(seq) == seq[Len(seq)]

\* The elements of set S of uuid-carrying records in ascending uuid order.
RECURSIVE ascending(_)
ascending(S) ==
    IF S = {} THEN <<>>
    ELSE LET m == CHOOSE x \in S : \A y \in S : x <= y
         IN <<m>> \o ascending(S \ {m})

(***************************************************************************)
(* kama.context / kama.database, as the specification describes them.      *)
(***************************************************************************)
\* The roles of a user, enumerated as CreateEntity enumerates them:
\*   [x.from_entity() for x in request_context.user.links_to(...)]
\* links_to(e) are the links whose to_entity is e (entity_to_pb, ListEntities).
user_roles(s, user) == {l.from : l \in {x \in s.links : x.to = user}}

\* Permission evaluator: some role of the user holds `capability` on `entity`.
CanAccess(s, user, entity, capability) ==
    \E role \in user_roles(s, user) :
        [entity |-> entity, role |-> role, name |-> capability] \in s.permissions

\* kama.database.Entity(uuid): the entity, or NoUuid (falsy) when there is none.
Entity(s, uuid) == IF uuid \in DOMAIN s.entities THEN uuid ELSE NoUuid

\* Entity.get_by_name(kind, name): the possible results of the lookup.
Entity_get_by_name(s, kind, name) ==
    LET found == {u \in DOMAIN s.entities :
                    s.entities[u].kind = kind /\ s.entities[u].name = name}
    IN IF found = {} THEN {NoUuid} ELSE found

\* Entity.get_by_kind(kind) and Entity.get_all(): in the store's enumeration order.
Entity_get_by_kind(s, kind) ==
    ascending({u \in DOMAIN s.entities : s.entities[u].kind = kind})

Entity_get_all(s) == ascending(DOMAIN s.entities)

\* The accessors taking context=...: they raise PermissionDeniedException
\* (denied) when the caller has no read capability on the entity.
Entity_attributes(s, user, e) ==
    [denied |-> ~CanAccess(s, user, e, "read"),
     val |-> {a \in s.attributes : a.entity = e}]

Entity_links_from(s, user, e) ==
    [denied |-> ~CanAccess(s, user, e, "read"),
     val |-> {l \in s.links : l.from = e}]

Entity_links_to(s, user, e) ==
    [denied |-> ~CanAccess(s, user, e, "read"),
     val |-> {l \in s.links : l.to = e}]

Entity_permissions(s, user, e) ==
    [denied |-> ~CanAccess(s, user, e, "read"),
     val |-> {p \in s.permissions : p.entity = e}]

\* The identifier of a permission record (records stand for their uuids).
permission_uuid(p) ==
    100 * p.entity + 10 * p.role
      + (CASE p.name = "read" -> 1 [] p.name = "write" -> 2 [] OTHER -> 3)

(***************************************************************************)
(* server.py: entity_to_pb                                                 *)
(***************************************************************************)
Raised(code) == [raised |-> TRUE, code |-> code]

\* entity_to_pb reading the entity without the request context.
entity_to_pb_no_context(s, user, e) ==
    [raised |-> FALSE,
     pb |-> [pb |-> TRUE,
             uuid |-> e,
             name |-> s.entities[e].name,
             kind |-> s.entities[e].kind,
             attributes |-> {a \in s.attributes : a.entity = e},
             links_from |-> {l \in s.links : l.from = e},
             links_to |-> {l \in s.links : l.to = e},
             permissions |-> {q \in s.permissions : q.entity = e}]]

\* entity_to_pb whose link loops also need read on the entity at the other
\* end of each link.
entity_to_pb_reading_endpoints(s, user, e) ==
    LET attrs == Entity_attributes(s, user, e)
        lfrom == Entity_links_from(s, user, e)
        lto == Entity_links_to(s, user, e)
        perms == Entity_permissions(s, user, e)
    IN IF \/ attrs.denied \/ lfrom.denied \/ lto.denied \/ perms.denied
          \/ \E l \in lfrom.val : ~CanAccess(s, user, l.to, "read")
          \/ \E l \in lto.val : ~CanAccess(s, user, l.from, "read")
       THEN Raised("PermissionDenied")
       ELSE [raised |-> FALSE,
             pb |-> [pb |-> TRUE,
                     uuid |-> e,
                     name |-> s.entities[e].name,
                     kind |-> s.entities[e].kind,
                     attributes |-> attrs.val,
                     links_from |-> lfrom.val,
                     links_to |-> lto.val,
                     permissions |-> perms.val]]

entity_to_pb(s, user, e) ==
    LET attrs == Entity_attributes(s, user, e)
        lfrom == Entity_links_from(s, user, e)
        lto == Entity_links_to(s, user, e)
        perms == Entity_permissions(s, user, e)
    IN IF attrs.denied \/ lfrom.denied \/ lto.denied \/ perms.denied
       THEN Raised("PermissionDenied")
       ELSE [raised |-> FALSE,
             pb |-> [pb |-> TRUE,
                     uuid |-> e,
                     name |-> s.entities[e].name,
                     kind |-> s.entities[e].kind,
                     attributes |-> attrs.val,
                     links_from |-> lfrom.val,
                     links_to |-> lto.val,
                     permissions |-> perms.val]]

(***************************************************************************)
(* server.py: DatabaseServicer.ListEntities                                *)
(*                                                                         *)
(* A request is the protobuf Entity: uuid, name, kind and the repeated     *)
(* attributes [uuid, key, value], links_from and links_to [from, to] and   *)
(* permissions [uuid, role, entity, name].                                 *)
(***************************************************************************)
Result(s, code, out) == [db |-> s, code |-> code, out |-> out]

RECURSIVE flatten(_)
flatten(seqs) == IF seqs = <<>> THEN <<>> ELSE Head(seqs) \o flatten(Tail(seqs))

\* Lines 76-82: one lambda per attribute criterion that names a key; which
\* lambda is decided when the loop visits the criterion.
attribute_filters(entity) ==
    flatten([i \in 1 .. Len(entity.attributes) |->
        LET attribute == entity.attributes[i]
        IN IF attribute.key # "" /\ attribute.value # "" THEN <<"attribute_key_value">>
           ELSE IF attribute.key # "" THEN <<"attribute_key">>
           ELSE <<>>])

\* Lines 84-88: one lambda per link criterion.
link_filters(entity) ==
    [i \in 1 .. Len(entity.links_from) |-> "links_from"]
    \o [i \in 1 .. Len(entity.links_to) |-> "links_to"]

\* Lines 90-98: one lambda per tested field of each permission criterion.
\* permission.role and permission.entity are sub-messages, which are truthy
\* whether set or not; uuid and name are scalars.
permission_filters(entity) ==
    flatten([i \in 1 .. Len(entity.permissions) |->
        LET permission == entity.permissions[i]
        IN (IF permission.uuid # NoUuid THEN <<"permission_uuid">> ELSE <<>>)
           \o <<"permission_role">>
           \o <<"permission_entity">>
           \o (IF permission.name # "" THEN <<"permission_name">> ELSE <<>>)])

filters(entity) ==
    attribute_filters(entity) \o link_filters(entity) \o permission_filters(entity)

\* The loop variables the lambdas close over, read when a lambda runs, that
\* is after every loop has ended: each holds the last value it was bound to.
\* `link` is the variable of both link loops.
closure_attribute(entity) == Last(entity.attributes)

closure_link(entity) ==
    IF entity.links_to # <<>> THEN Last(entity.links_to) ELSE Last(entity.links_from)

closure_permission(entity) == Last(entity.permissions)

\* One lambda applied to candidate x: denied when its accessor raises, else
\* the list it returns.
apply_filter(s, user, entity, filter, x) ==
    CASE filter = "attribute_key_value" ->
           LET r == Entity_attributes(s, user, x)
           IN [denied |-> r.denied,
               val |-> {y \in r.val : y.key = closure_attribute(entity).key
                                      /\ y.value = closure_attribute(entity).value}]
      [] filter = "attribute_key" ->
           LET r == Entity_attributes(s, user, x)
           IN [denied |-> r.denied,
               val |-> {y \in r.val : y.key = closure_attribute(entity).key}]
      [] filter = "links_from" ->
           LET r == Entity_links_from(s, user, x)
           IN [denied |-> r.denied,
               val |-> {y \in r.val : y.to = closure_link(entity).to}]
      [] filter = "links_to" ->
           LET r == Entity_links_to(s, user, x)
           IN [denied |-> r.denied,
               val |-> {y \in r.val : y.from = closure_link(entity).from}]
      [] filter = "permission_uuid" ->
           LET r == Entity_permissions(s, user, x)
           IN [denied |-> r.denied,
               val |-> {y \in r.val : permission_uuid(y) = closure_permission(entity).uuid}]
      [] filter = "permission_role" ->
           LET r == Entity_permissions(s, user, x)
           IN [denied |-> r.denied,
               val |-> {y \in r.val : y.role = closure_permission(entity).role}]
      [] filter = "permission_entity" ->
           LET r == Entity_permissions(s, user, x)
           IN [denied |-> r.denied,
               val |-> {y \in r.val : y.entity = closure_permission(entity).entity}]
      [] OTHER ->
           LET r == Entity_permissions(s, user, x)
           IN [denied |-> r.denied,
               val |-> {y \in r.val : y.name = closure_permission(entity).name}]

\* Lines 100-106 for one candidate: what it adds to the stream.  Every
\* lambda runs (all() is given a list); PermissionDeniedException from a
\* lambda or from entity_to_pb is caught and the candidate is passed over.
\* The emit loop with the candidate's permission failure not caught: the
\* representation is built from the entity without the request context.
emit_candidate_no_context(s, user, entity, x) ==
    LET fs == filters(entity)
        rs == [i \in 1 .. Len(fs) |-> apply_filter(s, user, entity, fs[i], x)]
    IN IF \E i \in 1 .. Len(fs) : rs[i].val = {} THEN <<>>
       ELSE <<entity_to_pb_no_context(s, user, x).pb>>

emit_candidate(s, user, entity, x) ==
    LET fs == filters(entity)
        rs == [i \in 1 .. Len(fs) |-> apply_filter(s, user, entity, fs[i], x)]
    IN IF \E i \in 1 .. Len(fs) : rs[i].denied THEN <<>>
       ELSE IF \E i \in 1 .. Len(fs) : rs[i].val = {} THEN <<>>
       ELSE LET pb == entity_to_pb(s, user, x)
            IN IF pb.raised THEN <<>> ELSE <<pb.pb>>

\* ListEntities walking its candidates from the last to the first.
ListEntities_backwards(s, user, entity) ==
    IF entity.uuid # NoUuid
    THEN Result(s, "OK", <<[pb |-> FALSE, uuid |-> Entity(s, entity.uuid)]>>)
    ELSE IF entity.name # ""
    THEN Result(s, "TypeError", <<>>)
    ELSE IF \E i \in 1 .. Len(entity.attributes) : entity.attributes[i].uuid # NoUuid
    THEN Result(s, "AssertionError", <<>>)
    ELSE LET result == IF entity.kind # "" THEN Entity_get_by_kind(s, entity.kind)
                       ELSE Entity_get_all(s)
         IN Result(s, "OK",
                   flatten([i \in 1 .. Len(result) |->
                               emit_candidate(s, user, entity,
                                              result[Len(result) + 1 - i])]))

ListEntities(s, user, entity) ==
    IF entity.uuid # NoUuid
    THEN \* line 60: the database entity itself is yielded
         Result(s, "OK", <<[pb |-> FALSE, uuid |-> Entity(s, entity.uuid)]>>)
    ELSE IF entity.name # ""
    THEN \* line 63: get_by_name is called with the name alone, one argument
         \* short of the (kind, name) it takes in GetEntity
         Result(s, "TypeError", <<>>)
    ELSE IF \E i \in 1 .. Len(entity.attributes) : entity.attributes[i].uuid # NoUuid
    THEN \* line 78
         Result(s, "AssertionError", <<>>)
    ELSE LET result == IF entity.kind # "" THEN Entity_get_by_kind(s, entity.kind)
                       ELSE Entity_get_all(s)
         IN Result(s, "OK",
                   flatten([i \in 1 .. Len(result) |->
                               emit_candidate(s, user, entity, result[i])]))

(***************************************************************************)
(* server.py: DatabaseServicer.GetEntity.  The set of possible outcomes:   *)
(* the lookup by (kind, name) may have more than one match.                *)
(***************************************************************************)
\* GetEntity treating the rest of the request as search criteria.
GetEntity_filtered(s, user, entity) ==
    LET results == IF entity.uuid # NoUuid THEN {Entity(s, entity.uuid)}
                   ELSE Entity_get_by_name(s, entity.kind, entity.name)
    IN {IF result # NoUuid /\ emit_candidate(s, user, entity, result) # <<>>
        THEN Result(s, "OK", emit_candidate(s, user, entity, result))
        ELSE Result(s, "NOT_FOUND", <<>>) : result \in results}

GetEntity(s, user, entity) ==
    IF entity.uuid = NoUuid /\ ~(entity.kind # "" /\ entity.name # "")
    THEN \* line 116: `result` was never bound
         {Result(s, "UnboundLocalError", <<>>)}
    ELSE LET results == IF entity.uuid # NoUuid THEN {Entity(s, entity.uuid)}
                        ELSE Entity_get_by_name(s, entity.kind, entity.name)
         IN {IF result # NoUuid
             THEN LET pb == entity_to_pb(s, user, result)
                  IN IF pb.raised THEN Result(s, pb.code, <<>>)
                     ELSE Result(s, "OK", <<pb.pb>>)
             ELSE Result(s, "NOT_FOUND", <<>>) : result \in results}

(***************************************************************************)
(* kama.database: the mutations of the store adapter.  Each needs the      *)
(* capability the specification names and raises PermissionDenied without  *)
(* it; an operation on an entity that does not exist raises NotFound.      *)
(* Attributes, links and permissions are kept as sets of records.          *)
(***************************************************************************)
Done(s) == [raised |-> FALSE, db |-> s]

guarded(s, user, e, capability, after) ==
    IF e = NoUuid THEN Raised("NotFound")
    ELSE IF ~CanAccess(s, user, e, capability) THEN Raised("PermissionDenied")
    ELSE Done(after)

\* Entity.create(kind, name, owner): a fresh uuid, and the owner role is
\* given every capability on the new entity.
Entity_create(s, kind, name, owner) ==
    [s EXCEPT !.entities = s.entities @@ (s.next_uuid :> [kind |-> kind, name |-> name]),
              !.permissions = s.permissions \cup
                  {[entity |-> s.next_uuid, role |-> owner, name |-> c] :
                      c \in Capabilities},
              !.next_uuid = s.next_uuid + 1]

Entity_set_name(s, user, e, name) ==
    guarded(s, user, e, "write",
            [s EXCEPT !.entities = [u \in DOMAIN s.entities |->
                IF u = e THEN [s.entities[u] EXCEPT !.name = name] ELSE s.entities[u]]])

\* Entity.delete: the entity with its attributes, its links in both
\* directions and the permissions on it.
Entity_delete(s, user, e) ==
    guarded(s, user, e, "write",
            [s EXCEPT !.entities = [u \in DOMAIN s.entities \ {e} |-> s.entities[u]],
                      !.attributes = {a \in s.attributes : a.entity # e},
                      !.links = {l \in s.links : l.from # e /\ l.to # e},
                      !.permissions = {q \in s.permissions : q.entity # e}])

Entity_add_attribute(s, user, e, key, value) ==
    guarded(s, user, e, "write",
            [s EXCEPT !.attributes =
                s.attributes \cup {[entity |-> e, key |-> key, value |-> value]}])

Entity_delete_attributes(s, user, e, key) ==
    guarded(s, user, e, "write",
            [s EXCEPT !.attributes =
                {a \in s.attributes : ~(a.entity = e /\ a.key = key)}])

Entity_add_link(s, user, e, to) ==
    IF to = NoUuid THEN Raised("NotFound")
    ELSE guarded(s, user, e, "write",
                 [s EXCEPT !.links = s.links \cup {[from |-> e, to |-> to]}])

Entity_delete_link(s, user, e, to) ==
    IF to = NoUuid THEN Raised("NotFound")
    ELSE guarded(s, user, e, "write",
                 [s EXCEPT !.links = s.links \ {[from |-> e, to |-> to]}])

Entity_add_permission(s, user, e, role, name) ==
    IF role = NoUuid THEN Raised("NotFound")
    ELSE guarded(s, user, e, "grant",
                 [s EXCEPT !.permissions =
                     s.permissions \cup {[entity |-> e, role |-> role, name |-> name]}])

Entity_delete_permission(s, user, e, role, name) ==
    IF role = NoUuid THEN Raised("NotFound")
    ELSE guarded(s, user, e, "grant",
                 [s EXCEPT !.permissions =
                     s.permissions \ {[entity |-> e, role |-> role, name |-> name]}])

(***************************************************************************)
(* server.py: the mutation handlers of DatabaseServicer.                   *)
(***************************************************************************)
\* What a handler that returns a message or Empty() makes of an adapter call.
reply(s, r, out) == IF r.raised THEN Result(s, r.code, <<>>) ELSE Result(r.db, "OK", out)

\* The handlers that answer with entity_to_pb of the entity in store `after`.
reply_entity(after, user, e) ==
    LET pb == entity_to_pb(after, user, e)
    IN IF pb.raised THEN Result(after, pb.code, <<>>) ELSE Result(after, "OK", <<pb.pb>>)

\* CreateEntity without the membership test of line 126.
CreateEntity_unchecked(s, user, request) ==
    reply_entity(Entity_create(s, request.kind, request.name, Entity(s, request.owner_role)),
                 user, s.next_uuid)

\* request: [kind, name, owner_role]
CreateEntity(s, user, request) ==
    LET owner == Entity(s, request.owner_role)
    IN IF owner \notin user_roles(s, user)
       THEN Result(s, "FAILED_PRECONDITION", <<>>)
       ELSE reply_entity(Entity_create(s, request.kind, request.name, owner),
                         user, s.next_uuid)

\* DeleteEntity removing the entity alone.
DeleteEntity_no_cascade(s, user, entity) ==
    LET r == Entity_delete(s, user, Entity(s, entity.uuid))
    IN IF r.raised THEN Result(s, r.code, <<>>)
       ELSE Result([s EXCEPT !.entities = r.db.entities], "OK", <<>>)

DeleteEntity(s, user, entity) ==
    reply(s, Entity_delete(s, user, Entity(s, entity.uuid)), <<>>)

UpdateEntity(s, user, entity) ==
    LET db_entity == Entity(s, entity.uuid)
        r == Entity_set_name(s, user, db_entity, entity.name)
    IN IF r.raised THEN Result(s, r.code, <<>>)
       ELSE reply_entity(r.db, user, db_entity)

\* pb_attribute: [entity, key, value]
AddAttribute(s, user, pb_attribute) ==
    reply(s, Entity_add_attribute(s, user, Entity(s, pb_attribute.entity),
                                  pb_attribute.key, pb_attribute.value),
          <<pb_attribute>>)

\* DeleteAttributes failing when there is no attribute of the key.
DeleteAttributes_strict(s, user, pb_attribute) ==
    IF \E a \in s.attributes : a.entity = pb_attribute.entity /\ a.key = pb_attribute.key
    THEN reply(s, Entity_delete_attributes(s, user, Entity(s, pb_attribute.entity),
                                           pb_attribute.key),
               <<>>)
    ELSE Result(s, "NOT_FOUND", <<>>)

DeleteAttributes(s, user, pb_attribute) ==
    reply(s, Entity_delete_attributes(s, user, Entity(s, pb_attribute.entity),
                                      pb_attribute.key),
          <<>>)

\* pb_link: [from, to]
AddLink(s, user, pb_link) ==
    reply(s, Entity_add_link(s, user, Entity(s, pb_link.from), Entity(s, pb_link.to)),
          <<pb_link>>)

DeleteLink(s, user, pb_link) ==
    reply(s, Entity_delete_link(s, user, Entity(s, pb_link.from), Entity(s, pb_link.to)),
          <<>>)

\* pb_permission: [entity, role, name]
AddPermission(s, user, pb_permission) ==
    reply(s, Entity_add_permission(s, user, Entity(s, pb_permission.entity),
                                   Entity(s, pb_permission.role), pb_permission.name),
          <<pb_permission>>)

DeletePermission(s, user, pb_permission) ==
    reply(s, Entity_delete_permission(s, user, Entity(s, pb_permission.entity),
                                      Entity(s, pb_permission.role), pb_permission.name),
          <<>>)

(***************************************************************************)
(* The requests the model issues.                                          *)
(***************************************************************************)
NoCriteria ==
    [uuid |-> NoUuid, name |-> "", kind |-> "", attributes |-> <<>>,
     links_from |-> <<>>, links_to |-> <<>>, permissions |-> <<>>]

SeqsUpTo(S, n) == UNION {[1 .. k -> S] : k \in 0 .. n}

AttributeCriteria ==
    {[uuid |-> NoUuid, key |-> "k1", value |-> "v1"],
     [uuid |-> NoUuid, key |-> "k2", value |-> "v2"],
     [uuid |-> NoUuid, key |-> "k2", value |-> ""]}

Created == FirstFree .. (FirstFree + MaxCreated - 1)

PointRequests == {[NoCriteria EXCEPT !.uuid = u] : u \in UUIDs}

NameRequests == {[NoCriteria EXCEPT !.name = "a", !.kind = k] : k \in Kinds \cup {""}}

AttributeRequests ==
    {[NoCriteria EXCEPT !.attributes = as] :
        as \in SeqsUpTo(AttributeCriteria, MaxCriteria)}
    \cup {[NoCriteria EXCEPT !.kind = k, !.attributes = as] :
             k \in Kinds, as \in SeqsUpTo(AttributeCriteria, 1)}
    \cup {[NoCriteria EXCEPT !.attributes = <<[uuid |-> Alice, key |-> "k1", value |-> "v1"]>>]}

LinkRequests ==
    {[NoCriteria EXCEPT !.links_from = <<[from |-> NoUuid, to |-> u]>>] : u \in Created}
    \cup {[NoCriteria EXCEPT !.links_to = <<[from |-> u, to |-> NoUuid]>>] : u \in Created}
    \cup {[NoCriteria EXCEPT !.links_from = <<[from |-> NoUuid, to |-> u]>>,
                             !.links_to = <<[from |-> v, to |-> NoUuid]>>] :
             u \in Created, v \in Created}

PermissionRequests ==
    {[NoCriteria EXCEPT !.permissions =
          <<[uuid |-> NoUuid, role |-> r, entity |-> NoUuid, name |-> n]>>] :
        r \in {NoUuid, Staff}, n \in {"", "read"}}

SearchRequests ==
    PointRequests \cup NameRequests \cup AttributeRequests \cup LinkRequests
    \cup PermissionRequests

GetRequests ==
    {[NoCriteria EXCEPT !.uuid = u] : u \in UUIDs}
    \cup {[NoCriteria EXCEPT !.kind = k, !.name = n] : k \in Kinds \cup {""}, n \in {"", "a"}}
    \cup {[NoCriteria EXCEPT !.uuid = u, !.kind = "doc", !.name = "b",
              !.attributes = <<[uuid |-> Alice, key |-> "k1", value |-> "v1"]>>] :
             u \in UUIDs}

\* The entities the mutations address: a role and the created entities.
Targets == {Staff} \cup Created

CreateRequests ==
    [kind : Kinds, name : Names, owner_role : {Staff, Admins}]

UpdateRequests == [uuid : Targets, name : Names]

DeleteRequests == [uuid : Targets]

AttributeMessages ==
    {[entity |-> e, key |-> kv[1], value |-> kv[2]] :
        e \in Targets, kv \in {<<"k1", "v1">>, <<"k2", "v2">>, <<"k2", "v1">>}}

\* DeleteAttributes reads the entity and the key of its message.
DeleteAttributeMessages == [entity : Targets, key : Keys, value : {""}]

LinkMessages == [from : Targets, to : Users \cup Created]

PermissionMessages == [entity : Targets, role : {Staff, Admins}, name : Capabilities]

(***************************************************************************)
(* The state machine: one action per RPC, and the return of its answer.    *)
(* resp is the call being answered: the request, the status code, the      *)
(* messages sent back and whether the store was changed.  creating is the  *)
(* CreateEntity call of another worker that is between its membership test *)
(* (line 126) and its Entity.create (line 133); no call is there while the *)
(* handlers run one after the other.                                       *)
(***************************************************************************)
Idle ==
    [op |-> "none", user |-> NoUuid, request |-> NoCriteria,
     code |-> "OK", out |-> <<>>, changed |-> FALSE]

NoCall == [user |-> NoUuid, request |-> NoCriteria, owner |-> NoUuid]

\* The store the server starts with: two users, each in one role, the
\* members of Admins able to change the role Staff.
BootDB ==
    [entities |-> BootEntities,
     attributes |-> {},
     links |-> {[from |-> Staff, to |-> Alice], [from |-> Admins, to |-> Bob]},
     permissions |-> {[entity |-> Staff, role |-> Admins, name |-> "write"]},
     next_uuid |-> FirstFree]

\* The server starts on the bootstrap store, or on the store an earlier run
\* left: the bootstrap store in which alice has created a document.
InitialStores ==
    {BootDB,
     CreateEntity(BootDB, Alice, [kind |-> "doc", name |-> "a", owner_role |-> Staff]).db}

Init ==
    /\ \E s \in InitialStores :
          /\ entities = s.entities
          /\ attributes = s.attributes
          /\ links = s.links
          /\ permissions = s.permissions
          /\ next_uuid = s.next_uuid
    /\ ops = 0
    /\ resp = Idle
    /\ creating = NoCall

Ready == resp = Idle

\* The handler's effect on the store and its answer.
Answer(op, user, request, r) ==
    /\ r.db # DB => ops < MaxOps
    /\ entities' = r.db.entities
    /\ attributes' = r.db.attributes
    /\ links' = r.db.links
    /\ permissions' = r.db.permissions
    /\ next_uuid' = r.db.next_uuid
    /\ ops' = IF r.db # DB THEN ops + 1 ELSE ops
    /\ resp' = [op |-> op, user |-> user, request |-> request,
                code |-> r.code, out |-> r.out, changed |-> r.db # DB]

Respond(op, user, request, r) ==
    /\ Answer(op, user, request, r)
    /\ UNCHANGED creating

ListEntitiesCall ==
    /\ Ready
    /\ \E user \in Users, entity \in SearchRequests :
          Respond("ListEntities", user, entity, ListEntities(DB, user, entity))

GetEntityCall ==
    /\ Ready
    /\ \E user \in Users, entity \in GetRequests :
          \E r \in GetEntity(DB, user, entity) : Respond("GetEntity", user, entity, r)

CreateEntityCall ==
    /\ Ready
    /\ next_uuid \in Created
    /\ \E user \in Users, request \in CreateRequests :
          Respond("CreateEntity", user, request, CreateEntity(DB, user, request))

DeleteEntityCall ==
    /\ Ready
    /\ \E user \in Users, entity \in DeleteRequests :
          Respond("DeleteEntity", user, entity, DeleteEntity(DB, user, entity))

UpdateEntityCall ==
    /\ Ready
    /\ \E user \in Users, entity \in UpdateRequests :
          Respond("UpdateEntity", user, entity, UpdateEntity(DB, user, entity))

AddAttributeCall ==
    /\ Ready
    /\ \E user \in Users, pb_attribute \in AttributeMessages :
          Respond("AddAttribute", user, pb_attribute, AddAttribute(DB, user, pb_attribute))

DeleteAttributesCall ==
    /\ Ready
    /\ \E user \in Users, pb_attribute \in DeleteAttributeMessages :
          Respond("DeleteAttributes", user, pb_attribute,
                  DeleteAttributes(DB, user, pb_attribute))

AddLinkCall ==
    /\ Ready
    /\ \E user \in Users, pb_link \in LinkMessages :
          Respond("AddLink", user, pb_link, AddLink(DB, user, pb_link))

DeleteLinkCall ==
    /\ Ready
    /\ \E user \in Users, pb_link \in LinkMessages :
          Respond("DeleteLink", user, pb_link, DeleteLink(DB, user, pb_link))

AddPermissionCall ==
    /\ Ready
    /\ \E user \in Users, pb_permission \in PermissionMessages :
          Respond("AddPermission", user, pb_permission,
                  AddPermission(DB, user, pb_permission))

DeletePermissionCall ==
    /\ Ready
    /\ \E user \in Users, pb_permission \in PermissionMessages :
          Respond("DeletePermission", user, pb_permission,
                  DeletePermission(DB, user, pb_permission))

\* The answer has gone to the caller; the next call is taken.
Return ==
    /\ resp # Idle
    /\ resp' = Idle
    /\ UNCHANGED <<entities, attributes, links, permissions, next_uuid, ops, creating>>

Next ==
    \/ ListEntitiesCall
    \/ GetEntityCall
    \/ CreateEntityCall
    \/ DeleteEntityCall
    \/ UpdateEntityCall
    \/ AddAttributeCall
    \/ DeleteAttributesCall
    \/ AddLinkCall
    \/ DeleteLinkCall
    \/ AddPermissionCall
    \/ DeletePermissionCall
    \/ Return

Spec == Init /\ [][Next]_vars

(***************************************************************************)
(* The handlers on the worker pool (line 203): CreateEntity reads the      *)
(* caller's links and creates the entity in two calls of the store, with   *)
(* no lock around them, and the calls of other workers run in between.     *)
(***************************************************************************)
\* Lines 124-131: the owner is resolved and tested against the caller's roles.
CreateEntityCheck ==
    /\ Ready
    /\ creating = NoCall
    /\ next_uuid \in Created
    /\ \E user \in Users, request \in CreateRequests :
          LET owner == Entity(DB, request.owner_role)
          IN IF owner \notin user_roles(DB, user)
             THEN Respond("CreateEntity", user, request,
                          Result(DB, "FAILED_PRECONDITION", <<>>))
             ELSE /\ creating' = [user |-> user, request |-> request, owner |-> owner]
                  /\ UNCHANGED <<entities, attributes, links, permissions, next_uuid,
                                 ops, resp>>

\* Entity.create for an owner object whose entity may have been deleted since
\* it was resolved: the store then either takes the new entity or refuses it.
Entity_create_stale(s, user, request, owner) ==
    {reply_entity(Entity_create(s, request.kind, request.name, owner), user, s.next_uuid)}
    \cup (IF owner \in DOMAIN s.entities THEN {}
          ELSE {Result(s, "IntegrityError", <<>>)})

\* Lines 133-134, on the store as it is by then.
CreateEntityCreate ==
    /\ Ready
    /\ creating # NoCall
    /\ \E r \in Entity_create_stale(DB, creating.user, creating.request, creating.owner) :
          Answer("CreateEntity", creating.user, creating.request, r)
    /\ creating' = NoCall

NextThreads ==
    \/ CreateEntityCheck
    \/ CreateEntityCreate
    \/ DeleteLinkCall
    \/ DeleteEntityCall
    \/ AddLinkCall
    \/ Return

SpecThreads == Init /\ [][NextThreads]_vars

(***************************************************************************)
(* Properties.                                                             *)
(***************************************************************************)
Mutations ==
    {"CreateEntity", "UpdateEntity", "DeleteEntity", "AddAttribute", "DeleteAttributes",
     "AddLink", "DeleteLink", "AddPermission", "DeletePermission"}

Range(seq) == {seq[i] : i \in DOMAIN seq}

\* The uuids of the entities a response carries.
Emitted(out) == {m.uuid : m \in Range(out)} \ {NoUuid}

\* The last call was a general search: neither uuid nor name, well-formed criteria.
GeneralSearch ==
    /\ resp.op = "ListEntities"
    /\ resp.request.uuid = NoUuid
    /\ resp.request.name = ""
    /\ \A a \in Range(resp.request.attributes) : a.uuid = NoUuid

\* What the criteria of a search ask of candidate x, each criterion read
\* with its own fields.
HasAttribute(x, criterion) ==
    \E a \in attributes :
        /\ a.entity = x
        /\ a.key = criterion.key
        /\ criterion.value # "" => a.value = criterion.value

HasLinkTo(x, criterion) == [from |-> x, to |-> criterion.to] \in links

HasLinkFrom(x, criterion) == [from |-> criterion.from, to |-> x] \in links

HasPermission(x, criterion) ==
    /\ criterion.uuid # NoUuid =>
          \E q \in permissions : q.entity = x /\ permission_uuid(q) = criterion.uuid
    /\ criterion.role # NoUuid =>
          \E q \in permissions : q.entity = x /\ q.role = criterion.role
    /\ criterion.entity # NoUuid =>
          \E q \in permissions : q.entity = x /\ q.entity = criterion.entity
    /\ criterion.name # "" =>
          \E q \in permissions : q.entity = x /\ q.name = criterion.name

Satisfies(x, request) ==
    /\ \A c \in Range(request.attributes) : c.key # "" => HasAttribute(x, c)
    /\ \A c \in Range(request.links_from) : HasLinkTo(x, c)
    /\ \A c \in Range(request.links_to) : HasLinkFrom(x, c)
    /\ \A c \in Range(request.permissions) : HasPermission(x, c)

Candidates(request) ==
    {x \in DOMAIN entities : request.kind # "" => entities[x].kind = request.kind}

\* C1: every entity that ListEntities emits to a caller, whatever the
\* criteria (a uuid and a name included), is one the caller can read.
C1_Confidentiality ==
    resp.op = "ListEntities" =>
        \A e \in Emitted(resp.out) : CanAccess(DB, resp.user, e, "read")

\* C2: a general search with N >= 1 attribute criteria (and no other) emits
\* a candidate the caller can read iff it satisfies every one of the N
\* criteria, each taken with its own key and value.
C2_AttributeConjunction ==
    ( /\ GeneralSearch
      /\ resp.request.attributes # <<>>
      /\ \A c \in Range(resp.request.attributes) : c.key # ""
      /\ resp.request.links_from = <<>> /\ resp.request.links_to = <<>>
      /\ resp.request.permissions = <<>> )
    => Emitted(resp.out) =
          {x \in Candidates(resp.request) :
              CanAccess(DB, resp.user, x, "read") /\ Satisfies(x, resp.request)}

C4_AllOrNothing ==
    [][resp'.op \in Mutations /\ resp'.code # "OK" => DB' = DB]_vars

\* C5, on the searches by attribute criteria: a general search never
\* surfaces PermissionDenied; a candidate the caller cannot read is passed
\* over, and every candidate after it that the caller can read and that
\* satisfies all the criteria is emitted.
C5_DenialsSwallowed ==
    ( /\ GeneralSearch
      /\ resp.request.links_from = <<>> /\ resp.request.links_to = <<>>
      /\ resp.request.permissions = <<>> )
    => /\ resp.code = "OK"
       /\ \A x \in Candidates(resp.request) :
             ( /\ CanAccess(DB, resp.user, x, "read")
               /\ Satisfies(x, resp.request)
               /\ \E y \in Candidates(resp.request) :
                     y < x /\ ~CanAccess(DB, resp.user, y, "read") )
             => x \in Emitted(resp.out)

\* The last call was GetEntity with the uuid of an entity of the store.
PointLookup ==
    /\ resp.op = "GetEntity"
    /\ resp.request.uuid \in DOMAIN entities

CurrentState(m, e) ==
    m.uuid = e /\ m.name = entities[e].name /\ m.kind = entities[e].kind

\* C6 as claimed: GetEntity with the uuid of an existing entity returns the
\* entity's current state to every caller, whatever else the request carries.
C6_PointLookupEveryCaller ==
    PointLookup =>
        /\ resp.code = "OK"
        /\ Len(resp.out) = 1
        /\ CurrentState(resp.out[1], resp.request.uuid)

\* C6 as amended: GetEntity with the uuid of an existing entity returns the
\* entity's current state to every caller that can read the entity, whatever
\* else the request carries, and fails with PermissionDenied for a caller
\* that cannot; no search predicate is applied to it.
C6_PointLookup ==
    PointLookup =>
        IF CanAccess(DB, resp.user, resp.request.uuid, "read")
        THEN /\ resp.code = "OK"
             /\ Len(resp.out) = 1
             /\ CurrentState(resp.out[1], resp.request.uuid)
        ELSE resp.code = "PermissionDenied" /\ resp.out = <<>>

\* C6 witness: a point lookup answered although the request also carries a
\* kind, a name and an attribute criterion the entity does not meet.
C6_Witness ==
    /\ PointLookup
    /\ resp.code = "OK"
    /\ \/ /\ resp.request.kind # ""
          /\ resp.request.kind # entities[resp.request.uuid].kind
       \/ /\ resp.request.attributes # <<>>
          /\ ~Satisfies(resp.request.uuid, resp.request)

\* C7: GetEntity, CreateEntity and UpdateEntity hand a representation of an
\* entity only to a caller that can read it; addressed to an existing entity
\* the caller cannot read, GetEntity and UpdateEntity end in PermissionDenied
\* with no representation.
C7_NoRepresentationWithoutRead ==
    resp.op \in {"GetEntity", "CreateEntity", "UpdateEntity"} =>
        /\ \A e \in Emitted(resp.out) : CanAccess(DB, resp.user, e, "read")
        /\ ( /\ resp.op \in {"GetEntity", "UpdateEntity"}
             /\ resp.request.uuid \in DOMAIN entities
             /\ ~CanAccess(DB, resp.user, resp.request.uuid, "read") )
           => resp.code = "PermissionDenied" /\ resp.out = <<>>

\* C7 witness: GetEntity of an entity that has permissions on it, by a
\* caller without read on it, refused.
C7_Witness ==
    /\ PointLookup
    /\ resp.request.uuid \in Created
    /\ \E q \in permissions : q.entity = resp.request.uuid
    /\ ~CanAccess(DB, resp.user, resp.request.uuid, "read")
    /\ resp.code = "PermissionDenied"

\* What ListEntities(kind = the kind of D) emits to user V in this store.
ListedByKind(V, D) ==
    Range(ListEntities(DB, V, [NoCriteria EXCEPT !.kind = entities[D].kind]).out)

\* A property of the store alone is evaluated between calls: every store
\* reached is the store of such a state.
\*
\* C8: a user none of whose roles holds a permission on D never gets D from
\* ListEntities(kind = D.kind); as soon as, and as long as, one of the
\* user's roles holds 'read' on D, ListEntities(kind = D.kind) gives the
\* user D together with all of D's attributes.
C8_VisibilityFollowsGrants ==
    resp = Idle => \A V \in Users, D \in DOMAIN entities :
        /\ (\A q \in permissions : q.entity = D => q.role \notin user_roles(DB, V))
              => \A m \in ListedByKind(V, D) : m.uuid # D
        /\ (\E q \in permissions :
                q.entity = D /\ q.name = "read" /\ q.role \in user_roles(DB, V))
              => \E m \in ListedByKind(V, D) :
                    /\ m.uuid = D
                    /\ m.attributes = {a \in attributes : a.entity = D}

\* C8 witness: the listing by kind answers a user whose role was just
\* granted read on an entity created under another role, attributes included.
C8_Witness ==
    /\ resp.op = "ListEntities"
    /\ resp.request = [NoCriteria EXCEPT !.kind = "doc"]
    /\ \E m \in Range(resp.out), owner \in {Staff, Admins} :
          /\ m.attributes # {}
          /\ owner \notin user_roles(DB, resp.user)
          /\ {q \in permissions : q.entity = m.uuid} =
                {[entity |-> m.uuid, role |-> owner, name |-> c] : c \in Capabilities}
                \cup {[entity |-> m.uuid, role |-> r, name |-> "read"] :
                        r \in user_roles(DB, resp.user)}

\* The entities that were deleted: uuids are handed out once.
Deleted == {e \in 1 .. (next_uuid - 1) : e \notin DOMAIN entities}

\* C9: once an entity is deleted the store holds no attribute of it, no
\* link from or to it and no permission on it; GetEntity with its uuid
\* yields NOT_FOUND; no search by link or permission criteria emits it, or
\* emits another entity for a link to or from it.
C9_CascadeOnDelete ==
    resp = Idle => \A E \in Deleted :
        /\ \A a \in attributes : a.entity # E
        /\ \A l \in links : l.from # E /\ l.to # E
        /\ \A q \in permissions : q.entity # E
        /\ \A V \in Users :
              /\ \A r \in GetEntity(DB, V, [NoCriteria EXCEPT !.uuid = E]) :
                    r.code = "NOT_FOUND" /\ r.out = <<>>
              /\ \A request \in LinkRequests \cup PermissionRequests :
                    LET out == ListEntities(DB, V, request).out
                    IN /\ E \notin Emitted(out)
                       /\ ( \/ \E c \in Range(request.links_from) : c.to = E
                            \/ \E c \in Range(request.links_to) : c.from = E )
                          => out = <<>>

\* C9 witness: the first change of the store was the deletion of the role
\* that had a link and a permission.
C9_Witness ==
    /\ resp.op = "DeleteEntity"
    /\ resp.code = "OK"
    /\ resp.request.uuid = Staff
    /\ ops = 1

\* C10: DeleteAttributes(E, k) by a caller with write on E succeeds whether
\* or not E has attributes of key k; after it E has none of key k and every
\* other attribute, and the rest of the store, is as before; run again it
\* succeeds and changes nothing.
C10_DeleteAttributesIdempotent ==
    [][( /\ resp'.op = "DeleteAttributes"
         /\ resp'.request.entity \in DOMAIN entities
         /\ CanAccess(DB, resp'.user, resp'.request.entity, "write") )
       => /\ resp'.code = "OK"
          /\ attributes' = {a \in attributes :
                ~(a.entity = resp'.request.entity /\ a.key = resp'.request.key)}
          /\ DB' = [DB EXCEPT !.attributes = attributes']
          /\ DeleteAttributes(DB', resp'.user, resp'.request) = Result(DB', "OK", <<>>)]_vars

\* C10 witness: a DeleteAttributes that found nothing to delete and succeeded.
C10_Witness ==
    /\ resp.op = "DeleteAttributes"
    /\ resp.code = "OK"
    /\ ~resp.changed
    /\ \E a \in attributes : a.entity = resp.request.entity

\* The last call was a general search without any criterion.
UnfilteredSearch ==
    /\ GeneralSearch
    /\ resp.request.attributes = <<>>
    /\ resp.request.links_from = <<>> /\ resp.request.links_to = <<>>
    /\ resp.request.permissions = <<>>

\* C11: ListEntities with no criteria emits, once each, exactly the entities
\* the caller can read, and with only a kind given exactly the readable
\* entities of that kind; read on the entity itself is all it takes.
C11_UnfilteredSearchComplete ==
    UnfilteredSearch =>
        /\ resp.code = "OK"
        /\ Emitted(resp.out) =
              {x \in Candidates(resp.request) : CanAccess(DB, resp.user, x, "read")}
        /\ Len(resp.out) = Cardinality(Emitted(resp.out))

\* C11 witness: the search without criteria or kind emits an entity that has
\* a link to an entity its caller cannot read, and passes over another.
C11_Witness ==
    /\ UnfilteredSearch
    /\ resp.request.kind = ""
    /\ \E m \in Range(resp.out) :
          \E l \in m.links_from : ~CanAccess(DB, resp.user, l.to, "read")
    /\ \E x \in DOMAIN entities : x \notin Emitted(resp.out)

\* C12: a general search by link criteria (and no other) emits a candidate
\* the caller can read iff it has, for each outgoing criterion, a link to
\* that criterion's target and, for each incoming criterion, a link from
\* that criterion's source; also when the request carries both directions.
C12_LinkPredicates ==
    ( /\ GeneralSearch
      /\ resp.request.attributes = <<>>
      /\ resp.request.permissions = <<>>
      /\ resp.request.links_from # <<>> \/ resp.request.links_to # <<>> )
    => Emitted(resp.out) =
          {x \in Candidates(resp.request) :
              CanAccess(DB, resp.user, x, "read") /\ Satisfies(x, resp.request)}

\* C13: a general search by permission criteria (and no other) emits a
\* candidate the caller can read iff, for each criterion and each field given
\* in it (identifier, role, entity, name), the candidate has a permission
\* matching that field; a field left empty asks nothing, and different
\* fields may be matched by different permissions.
C13_PermissionPredicates ==
    ( /\ GeneralSearch
      /\ resp.request.attributes = <<>>
      /\ resp.request.links_from = <<>> /\ resp.request.links_to = <<>>
      /\ resp.request.permissions # <<>> )
    => Emitted(resp.out) =
          {x \in Candidates(resp.request) :
              CanAccess(DB, resp.user, x, "read") /\ Satisfies(x, resp.request)}

\* C14: a ListEntities request without uuid or name whose attribute criteria
\* name an attribute uuid fails with INVALID_ARGUMENT, emits no entity and
\* leaves the store as it was.
C14_MalformedCriteriaRejected ==
    ( /\ resp.op = "ListEntities"
      /\ resp.request.uuid = NoUuid
      /\ resp.request.name = ""
      /\ \E a \in Range(resp.request.attributes) : a.uuid # NoUuid )
    => /\ resp.code = "INVALID_ARGUMENT"
       /\ resp.out = <<>>
       /\ ~resp.changed

\* The outcomes GetEntity declares: an entity, NotFound, or another error of
\* the taxonomy.
DeclaredOutcomes ==
    {"OK", "NOT_FOUND", "PermissionDenied", "INVALID_ARGUMENT", "FAILED_PRECONDITION",
     "UNAUTHENTICATED"}

\* C15: every GetEntity request, one that gives neither a uuid nor both kind
\* and name included, ends in a declared outcome.
C15_GetEntityDefinedOutcome ==
    resp.op = "GetEntity" => resp.code \in DeclaredOutcomes

\* C16: ListEntities with a uuid, or with a kind and a name, answers as
\* GetEntity answers the same request of the same caller: the same outcome
\* and, when it is OK, the one representation GetEntity returns.
C16_ListEmulatesGet ==
    ( /\ resp.op = "ListEntities"
      /\ resp.request.uuid # NoUuid \/ (resp.request.kind # "" /\ resp.request.name # "") )
    => Result(DB, resp.code, resp.out) \in GetEntity(DB, resp.user, resp.request)

\* C17: with CreateEntity running beside the calls of other workers, an
\* entity is persisted under an owner role only while its creator is linked
\* to that role: in the store that first holds the entity the link from the
\* owner role to the creator is there.
C17_CreateSafeUnderInterleaving ==
    [][(resp'.op = "CreateEntity" /\ next_uuid' # next_uuid)
          => [from |-> resp'.request.owner_role, to |-> resp'.user] \in links']_vars

\* The candidates of a general search in the order the store enumerates them.
CandidateOrder(request) ==
    IF request.kind # "" THEN Entity_get_by_kind(DB, request.kind) ELSE Entity_get_all(DB)

\* C18: a general search ends, and what it emits is a subsequence of its
\* candidates in their enumeration order: the emitted entities, each once,
\* in the order the candidates have.
C18_OrderedFiniteResults ==
    GeneralSearch =>
        LET order == CandidateOrder(resp.request)
            kept(x) == x \in Emitted(resp.out)
        IN /\ resp.code = "OK"
           /\ Len(resp.out) <= Len(order)
           /\ [i \in 1 .. Len(resp.out) |-> resp.out[i].uuid] = SelectSeq(order, kept)

\* C18 witness: a general search that emits two entities or more and passes
\* over a candidate enumerated before them.
C18_Witness ==
    /\ GeneralSearch
    /\ Len(resp.out) >= 2
    /\ \E x \in Range(CandidateOrder(resp.request)) :
          x \notin Emitted(resp.out) /\ x < resp.out[1].uuid

====
